---------------------------- MODULE Spec2Model ----------------------------
(***************************************************************************)
(* A state-machine model of the TTS dashboard:                             *)
(*   Home            the settings store (voiceSettings,                    *)
(*                   environmentSettings) and the gesture handler           *)
(*   VoiceCustomizer the rate / pitch / volume sliders                      *)
(*   TTSPlayer       speak / pause / resume / stop / mute, the progress     *)
(*                   ticker and the interruption timers                     *)
(*   NoiseDetector   the microphone sampling loop and its classification    *)
(*                                                                         *)
(* Units.  rate and pitch are kept in tenths (1.0 = 10), volumes in         *)
(* hundredths (1.0 = 100), and a normalized noise value in 1/256ths         *)
(* (normalized = 1.5 * sum / 128 = 3 * sum / 256 is then an integer for     *)
(* every byte sum): these scalings are exact for every value the handlers   *)
(* compute from slider steps of 0.1.  Progress and the ticker's increments  *)
(* are fixed-point numbers in thousandths of a percent, every division      *)
(* rounded down: the model rounds where an IEEE double rounds, only more    *)
(* coarsely.                                                                *)
(***************************************************************************)
EXTENDS Integers, Sequences, FiniteSets, TLC

(***************************************************************************)
(* Bounds of the exploration.                                              *)
(***************************************************************************)
\* ticker callbacks explored in one behaviour
MaxTicks == 2
\* listen windows started while speaking in one behaviour
MaxWindows == 1
\* device requests granted to one monitor in one behaviour
MaxGrants == 2
\* device requests of one monitor pending at the same time
MaxPending == 2
\* half-width of the windows of byte sums sampled around each threshold
SumWindow == 40

(***************************************************************************)
(* Program constants.                                                      *)
(***************************************************************************)
\* tts-player.tsx:168, the length of the appended follow-up sentence
FollowUpLen == 51
\* tts-player.tsx:74 and :117, "* 50"
TickScale == 50
\* tts-player.tsx:60, "* 1.5", in tenths
BoostTenths == 15
\* tts-player.tsx:60, Math.min(1, ...), in hundredths
VolumeCap == 100
\* sliders (voice-customizer.tsx:76-77, :91-92), in tenths
SliderRateMin == 5
SliderRateMax == 20
SliderPitchMin == 5
SliderPitchMax == 20
\* volume slider (voice-customizer.tsx:106-107), in tenths
SliderVolumeMin == 1
SliderVolumeMax == 10
\* gesture handler clamps (page :185-:191): volume in hundredths, rate in tenths
GestureVolumeMax == 200
GestureVolumeMin == 10
GestureVolumeStep == 10
GestureRateMax == 20
GestureRateMin == 5
GestureRateStep == 1
\* noise-detector: analyser.fftSize = 256
FftSize == 256
\* thresholds of the classification, `< 20' and `> 60'
LowThreshold == 20
HighThreshold == 60
\* Math.min(100, ...)
NormMax == 100
\* a byte of getByteFrequencyData
ByteMax == 255

Min(a, b) == IF a < b THEN a ELSE b
Max(a, b) == IF a > b THEN a ELSE b

(***************************************************************************)
(* Fixed-point progress: PerCent units are one percent.                    *)
(***************************************************************************)
PerCent == 10 * 10 * 10
Zero == 0
Hundred == 100 * PerCent
\* 100 / 0 in JavaScript: above every finite increment the handlers compute
Infinity == PerCent * PerCent * PerCent

VARIABLES
    \* Home
    voiceSettings, environmentSettings,
    \* TTSPlayer: React state
    mounted, text, isPlaying, progress, isMuted, isListening, interruptionDetected,
    \* TTSPlayer: refs and timers
    speechSynthRef, intervals, windowTimers, processTimers,
    \* the platform speech service
    synthAvailable, synth,
    \* NoiseDetector
    noise, loops, micPending,
    \* GestureController and EmotionDetector, with their getUserMedia requests
    gestureCtl, camPending, emotion, emoPending,
    \* the classifier's test bench
    bench,
    \* bookkeeping of the exploration: ticks, listen windows and grants used
    budget,
    \* the last operation: its name, what it asked of the speech service, and
    \* what the playback status was when it began
    last

storeVars == <<voiceSettings, environmentSettings>>
playerVars == <<mounted, text, isPlaying, progress, isMuted, isListening,
                interruptionDetected, speechSynthRef, intervals, windowTimers,
                processTimers, synthAvailable, synth>>
noiseVars == <<noise, loops, micPending>>
cameraVars == <<gestureCtl, camPending, emotion, emoPending>>
vars == <<voiceSettings, environmentSettings, mounted, text, isPlaying, progress,
          isMuted, isListening, interruptionDetected, speechSynthRef, intervals,
          windowTimers, processTimers, synthAvailable, synth, noise, loops,
          micPending, gestureCtl, camPending, emotion, emoPending, bench, budget,
          last>>

NoUtterance == [none |-> TRUE]
NoiseLevels == {"low", "normal", "high"}

Did(op, calls) == [op |-> op, calls |-> calls, wasPlaying |-> isPlaying,
                   wasProgress |-> progress]

(***************************************************************************)
(* Home: the initial settings.                                             *)
(***************************************************************************)
InitVoiceSettings == [voice |-> "en-US-Neural2-F", rate |-> 10, pitch |-> 10,
                      volume |-> 100, emotion |-> "neutral", style |-> "casual"]
InitEnvironmentSettings == [noiseLevel |-> "normal", adaptToNoise |-> TRUE]

(***************************************************************************)
(* TTSPlayer: helpers of the handlers.                                     *)
(***************************************************************************)
\* speak() without the Math.min(1, ...) of the boost
EffectiveVolumeUncapped(muted, vs, env) ==
    LET base == IF muted THEN 0 ELSE vs.volume
    IN IF env.adaptToNoise /\ env.noiseLevel = "high"
       THEN (base * BoostTenths) \div 10
       ELSE base

\* speak() boosting on the noise level alone, adaptToNoise not consulted
EffectiveVolumeAlwaysAdapting(muted, vs, env) ==
    LET base == IF muted THEN 0 ELSE vs.volume
    IN IF env.noiseLevel = "high"
       THEN Min(VolumeCap, (base * BoostTenths) \div 10)
       ELSE base

\* speak(): utterance.volume = isMuted ? 0 : volume, then the noise boost
EffectiveVolume(muted, vs, env) ==
    LET base == IF muted THEN 0 ELSE vs.volume
    IN IF env.adaptToNoise /\ env.noiseLevel = "high"
       THEN Min(VolumeCap, (base * BoostTenths) \div 10)
       ELSE base

\* the effect on [isMuted, voiceSettings.volume] with its two branches exchanged
SyncVolumeInverted(utt, muted, volume) ==
    IF utt = NoUtterance THEN utt
    ELSE [utt EXCEPT !.volume = IF muted THEN volume ELSE 0]

\* the effect on [isMuted, voiceSettings.volume]
SyncVolume(utt, muted, volume) ==
    IF utt = NoUtterance THEN utt
    ELSE [utt EXCEPT !.volume = IF muted THEN 0 ELSE volume]

\* toggleMute()'s own write to the live utterance, with the isMuted it closes over
MuteWrite(utt, muted, volume) ==
    IF utt = NoUtterance THEN utt
    ELSE [utt EXCEPT !.volume = IF ~muted THEN 0 ELSE volume]

\* a clearInterval that is never made
KeepInterval(ivs) == ivs

\* if (progressIntervalRef.current) clearInterval(progressIntervalRef.current)
ClearInterval(ivs) == {iv \in ivs : ~iv.cur}

\* progressIntervalRef.current = setInterval(..., 50)
SetInterval(ivs, inc) ==
    {[iv EXCEPT !.cur = FALSE] : iv \in ivs} \cup {[inc |-> inc, cur |-> TRUE]}

\* onstart: duration = (text.length / rate) * 50, the increment 100 / duration
\* (rate in tenths: 100 * rate / (text.length * 10 * 50))
StartIncrement(len, rate) ==
    IF len = 0 THEN Infinity
    ELSE (Hundred * rate) \div (len * 10 * TickScale)

\* resume(): roughDuration = (remainingProgress / 100) * ((text.length / rate) * 50),
\* the increment 100 / roughDuration = 100 * 100 * rate / (remaining * length * 50),
\* with the exact quotient 100 / (10 * 50) taken first to stay within 32 bits
ResumeIncrement(p, len, rate) ==
    LET remainingProgress == Hundred - p
    IN IF remainingProgress * len = 0 THEN Infinity
       ELSE ((Hundred \div (10 * TickScale)) * Hundred * rate)
                \div (remainingProgress * len)

\* setProgress(prev => prev + increment), without the cap at 100
TickProgressUncapped(prev, inc) == prev + inc

\* setProgress(prev => newProgress > 100 ? 100 : newProgress)
TickProgress(prev, inc) ==
    LET newProgress == prev + inc
    IN IF newProgress > Hundred THEN Hundred ELSE newProgress

\* window.speechSynthesis.cancel(): the queue is emptied; whether the paused
\* flag of the service survives differs between engines
SynthCancel(s, keep) == [state |-> "idle", paused |-> keep /\ s.paused]

\* the Resume button is rendered
Resumable == ~isPlaying /\ progress > Zero /\ progress < Hundred

(***************************************************************************)
(* TTSPlayer: the handlers.                                                *)
(***************************************************************************)
\* speak() without its first line, if (!window.speechSynthesis) return
SpeakUnguarded ==
    /\ mounted /\ ~isPlaying /\ text > 0
    /\ \E keep \in BOOLEAN : synth' = [SynthCancel(synth, keep) EXCEPT !.state = "pending"]
    /\ speechSynthRef' = [none |-> FALSE, len |-> text,
                          rate |-> voiceSettings.rate,
                          pitch |-> voiceSettings.pitch,
                          volume |-> EffectiveVolume(isMuted, voiceSettings,
                                                     environmentSettings)]
    /\ last' = Did("speak", <<"cancel", "speak">>)
    /\ UNCHANGED <<storeVars, mounted, text, isPlaying, progress, isMuted, isListening,
                   interruptionDetected, intervals, windowTimers, processTimers,
                   synthAvailable, noiseVars, bench, cameraVars, budget>>

\* speak(), from the Speak button
Speak ==
    /\ mounted /\ ~isPlaying /\ text > 0
    /\ IF synthAvailable
       THEN /\ \E keep \in BOOLEAN : synth' = [SynthCancel(synth, keep) EXCEPT !.state = "pending"]
            /\ speechSynthRef' = [none |-> FALSE, len |-> text,
                                  rate |-> voiceSettings.rate,
                                  pitch |-> voiceSettings.pitch,
                                  volume |-> EffectiveVolume(isMuted, voiceSettings,
                                                             environmentSettings)]
            /\ last' = Did("speak", <<"cancel", "speak">>)
       ELSE /\ UNCHANGED <<synth, speechSynthRef>>
            /\ last' = Did("speak", <<>>)
    /\ UNCHANGED <<storeVars, mounted, text, isPlaying, progress, isMuted, isListening,
                   interruptionDetected, intervals, windowTimers, processTimers,
                   synthAvailable, noiseVars, bench, cameraVars, budget>>

\* utterance.onstart
OnStart ==
    /\ synth.state = "pending" /\ ~synth.paused
    /\ synth' = [synth EXCEPT !.state = "speaking"]
    /\ isPlaying' = TRUE
    /\ progress' = Zero
    /\ intervals' = SetInterval(ClearInterval(intervals),
                                StartIncrement(speechSynthRef.len, speechSynthRef.rate))
    /\ last' = Did("start", <<>>)
    /\ UNCHANGED <<storeVars, mounted, text, isMuted, isListening, interruptionDetected,
                   speechSynthRef, windowTimers, processTimers, synthAvailable,
                   noiseVars, bench, cameraVars, budget>>

\* utterance.onend without its setProgress(100)
OnEndKeepsProgress ==
    /\ synth.state = "speaking" /\ ~synth.paused
    /\ synth' = [synth EXCEPT !.state = "idle"]
    /\ isPlaying' = FALSE
    /\ intervals' = ClearInterval(intervals)
    /\ last' = Did("end", <<>>)
    /\ UNCHANGED <<storeVars, mounted, text, progress, isMuted, isListening,
                   interruptionDetected, speechSynthRef, windowTimers, processTimers,
                   synthAvailable, noiseVars, bench, cameraVars, budget>>

\* utterance.onend
OnEnd ==
    /\ synth.state = "speaking" /\ ~synth.paused
    /\ synth' = [synth EXCEPT !.state = "idle"]
    /\ isPlaying' = FALSE
    /\ progress' = Hundred
    /\ intervals' = ClearInterval(intervals)
    /\ last' = Did("end", <<>>)
    /\ UNCHANGED <<storeVars, mounted, text, isMuted, isListening, interruptionDetected,
                   speechSynthRef, windowTimers, processTimers, synthAvailable,
                   noiseVars, bench, cameraVars, budget>>

\* utterance.onerror
OnError ==
    /\ synth.state \in {"pending", "speaking"}
    /\ synth' = [synth EXCEPT !.state = "idle"]
    /\ isPlaying' = FALSE
    /\ intervals' = ClearInterval(intervals)
    /\ last' = Did("error", <<>>)
    /\ UNCHANGED <<storeVars, mounted, text, progress, isMuted, isListening,
                   interruptionDetected, speechSynthRef, windowTimers, processTimers,
                   synthAvailable, noiseVars, bench, cameraVars, budget>>

\* pause(): what it does to the service, the state and the ticker
PauseBody ==
    IF synthAvailable
    THEN /\ synth' = [synth EXCEPT !.paused = TRUE]
         /\ isPlaying' = IF mounted THEN FALSE ELSE isPlaying
         /\ intervals' = ClearInterval(intervals)
    ELSE UNCHANGED <<synth, isPlaying, intervals>>

PauseCalls == IF synthAvailable THEN <<"pause">> ELSE <<>>

\* pause(), from the Pause button
Pause ==
    /\ mounted /\ isPlaying
    /\ PauseBody
    /\ last' = Did("pause", PauseCalls)
    /\ UNCHANGED <<storeVars, mounted, text, progress, isMuted, isListening,
                   interruptionDetected, speechSynthRef, windowTimers, processTimers,
                   synthAvailable, noiseVars, bench, cameraVars, budget>>

\* resume(), from the Resume button
Resume ==
    /\ mounted /\ Resumable
    /\ IF synthAvailable
       THEN /\ synth' = [synth EXCEPT !.paused = FALSE]
            /\ isPlaying' = TRUE
            /\ intervals' = SetInterval(ClearInterval(intervals),
                                        ResumeIncrement(progress, text, voiceSettings.rate))
            /\ last' = Did("resume", <<"resume">>)
       ELSE /\ UNCHANGED <<synth, isPlaying, intervals>>
            /\ last' = Did("resume", <<>>)
    /\ UNCHANGED <<storeVars, mounted, text, progress, isMuted, isListening,
                   interruptionDetected, speechSynthRef, windowTimers, processTimers,
                   synthAvailable, noiseVars, bench, cameraVars, budget>>

\* stop(), from the Stop button, leaving newProgress in progress
StopWith(newProgress) ==
    /\ mounted /\ ~(~isPlaying /\ progress = Zero)
    /\ IF synthAvailable
       THEN /\ \E keep \in BOOLEAN : synth' = SynthCancel(synth, keep)
            /\ isPlaying' = FALSE
            /\ progress' = newProgress
            /\ intervals' = ClearInterval(intervals)
            /\ last' = Did("stop", <<"cancel">>)
       ELSE /\ UNCHANGED <<synth, isPlaying, progress, intervals>>
            /\ last' = Did("stop", <<>>)
    /\ UNCHANGED <<storeVars, mounted, text, isMuted, isListening, interruptionDetected,
                   speechSynthRef, windowTimers, processTimers, synthAvailable,
                   noiseVars, bench, cameraVars, budget>>

\* a stop() without its setProgress(0)
StopKeepsProgress == StopWith(progress)

\* stop(): setProgress(0)
Stop == StopWith(Zero)

\* toggleMute(), followed by the volume effect
ToggleMute ==
    /\ mounted
    /\ isMuted' = ~isMuted
    /\ speechSynthRef' =
         SyncVolume(IF synthAvailable
                    THEN MuteWrite(speechSynthRef, isMuted, voiceSettings.volume)
                    ELSE speechSynthRef,
                    ~isMuted, voiceSettings.volume)
    /\ last' = Did("mute", <<>>)
    /\ UNCHANGED <<storeVars, mounted, text, isPlaying, progress, isListening,
                   interruptionDetected, intervals, windowTimers, processTimers,
                   synthAvailable, synth, noiseVars, bench, cameraVars, budget>>

\* toggleListening(): the timeout closes over the isPlaying of this render
ToggleListening ==
    /\ mounted
    /\ IF isListening
       THEN /\ isListening' = FALSE
            /\ UNCHANGED <<windowTimers, budget>>
       ELSE /\ isListening' = TRUE
            /\ IF isPlaying
               THEN /\ budget.windows < MaxWindows
                    /\ windowTimers' = windowTimers + 1
                    /\ budget' = [budget EXCEPT !.windows = @ + 1]
               ELSE UNCHANGED <<windowTimers, budget>>
    /\ last' = Did("listen", <<>>)
    /\ UNCHANGED <<storeVars, mounted, text, isPlaying, progress, isMuted,
                   interruptionDetected, speechSynthRef, intervals, processTimers,
                   synthAvailable, synth, noiseVars, bench, cameraVars>>

\* the 2000 ms timeout of toggleListening(): its captured isPlaying is true
WindowElapsed ==
    /\ windowTimers > 0
    /\ windowTimers' = windowTimers - 1
    /\ PauseBody
    /\ interruptionDetected' = IF mounted THEN TRUE ELSE interruptionDetected
    /\ processTimers' = processTimers + 1
    /\ isListening' = IF mounted THEN FALSE ELSE isListening
    /\ last' = Did("window", PauseCalls)
    /\ UNCHANGED <<storeVars, mounted, text, progress, isMuted, speechSynthRef,
                   synthAvailable, noiseVars, bench, cameraVars, budget>>

\* the 1500 ms timeout set by the first one
ProcessElapsed ==
    /\ processTimers > 0
    /\ processTimers' = processTimers - 1
    /\ IF mounted
       THEN /\ interruptionDetected' = FALSE
            /\ isListening' = FALSE
            /\ text' = text + FollowUpLen
       ELSE UNCHANGED <<interruptionDetected, isListening, text>>
    /\ last' = Did("process", <<>>)
    /\ UNCHANGED <<storeVars, mounted, isPlaying, progress, isMuted, speechSynthRef,
                   intervals, windowTimers, synthAvailable, synth, noiseVars, bench, cameraVars,
                   budget>>

\* the textarea's onChange
EditText(len) ==
    /\ mounted /\ len # text
    /\ text' = len
    /\ last' = Did("edit", <<>>)
    /\ UNCHANGED <<storeVars, mounted, isPlaying, progress, isMuted, isListening,
                   interruptionDetected, speechSynthRef, intervals, windowTimers,
                   processTimers, synthAvailable, synth, noiseVars, bench, cameraVars, budget>>

\* one callback of a progress interval
Tick(iv) ==
    /\ iv \in intervals
    /\ budget.ticks < MaxTicks
    /\ budget' = [budget EXCEPT !.ticks = @ + 1]
    /\ progress' = IF mounted THEN TickProgress(progress, iv.inc) ELSE progress
    /\ last' = Did("tick", <<>>)
    /\ UNCHANGED <<storeVars, mounted, text, isPlaying, isMuted, isListening,
                   interruptionDetected, speechSynthRef, intervals, windowTimers,
                   processTimers, synthAvailable, synth, noiseVars, bench, cameraVars>>

\* the cleanup of the mount effect
Unmount ==
    /\ mounted
    /\ mounted' = FALSE
    /\ intervals' = ClearInterval(intervals)
    /\ IF synthAvailable
       THEN /\ \E keep \in BOOLEAN : synth' = SynthCancel(synth, keep)
            /\ last' = Did("unmount", <<"cancel">>)
       ELSE /\ UNCHANGED synth
            /\ last' = Did("unmount", <<>>)
    /\ UNCHANGED <<storeVars, text, isPlaying, progress, isMuted, isListening,
                   interruptionDetected, speechSynthRef, windowTimers, processTimers,
                   synthAvailable, noiseVars, bench, cameraVars, budget>>

(***************************************************************************)
(* Home and VoiceCustomizer: the settings store.                           *)
(***************************************************************************)
\* the volume effect of TTSPlayer, run when voiceSettings.volume has changed
VolumeEffect(newSettings) ==
    IF mounted /\ newSettings.volume # voiceSettings.volume
    THEN SyncVolume(speechSynthRef, isMuted, newSettings.volume)
    ELSE speechSynthRef

\* setVoiceSettings(...) and the render that follows it
WriteVoiceSettings(newSettings, op) ==
    /\ voiceSettings' = newSettings
    /\ speechSynthRef' = VolumeEffect(newSettings)
    /\ last' = Did(op, <<>>)
    /\ UNCHANGED <<environmentSettings, mounted, text, isPlaying, progress, isMuted,
                   isListening, interruptionDetected, intervals, windowTimers,
                   processTimers, synthAvailable, synth, noiseVars, bench, cameraVars, budget>>

\* the rate slider: onChange({ rate: value })
SliderRate(value) ==
    /\ value # voiceSettings.rate
    /\ WriteVoiceSettings([voiceSettings EXCEPT !.rate = value], "rate")

\* the pitch slider: onChange({ pitch: value })
SliderPitch(value) ==
    /\ value # voiceSettings.pitch
    /\ WriteVoiceSettings([voiceSettings EXCEPT !.pitch = value], "pitch")

\* the volume slider: onChange({ volume: value }), value in tenths
SliderVolume(value) ==
    /\ value * 10 # voiceSettings.volume
    /\ WriteVoiceSettings([voiceSettings EXCEPT !.volume = value * 10], "volume")

Gestures == {"volume-up", "volume-down", "speed-up", "speed-down"}

\* onGestureDetected with the volume-up update left unclamped
GestureUpdateUnclamped(vs, gesture) ==
    IF gesture = "volume-up"
    THEN [vs EXCEPT !.volume = vs.volume + GestureVolumeStep]
    ELSE IF gesture = "volume-down"
    THEN [vs EXCEPT !.volume = Max(GestureVolumeMin, vs.volume - GestureVolumeStep)]
    ELSE IF gesture = "speed-up"
    THEN [vs EXCEPT !.rate = Min(GestureRateMax, vs.rate + GestureRateStep)]
    ELSE IF gesture = "speed-down"
    THEN [vs EXCEPT !.rate = Max(GestureRateMin, vs.rate - GestureRateStep)]
    ELSE vs

\* onGestureDetected: the four clamped updates
GestureUpdate(vs, gesture) ==
    IF gesture = "volume-up"
    THEN [vs EXCEPT !.volume = Min(GestureVolumeMax, vs.volume + GestureVolumeStep)]
    ELSE IF gesture = "volume-down"
    THEN [vs EXCEPT !.volume = Max(GestureVolumeMin, vs.volume - GestureVolumeStep)]
    ELSE IF gesture = "speed-up"
    THEN [vs EXCEPT !.rate = Min(GestureRateMax, vs.rate + GestureRateStep)]
    ELSE IF gesture = "speed-down"
    THEN [vs EXCEPT !.rate = Max(GestureRateMin, vs.rate - GestureRateStep)]
    ELSE vs

\* a gesture event reported to Home
Gesture(gesture) == WriteVoiceSettings(GestureUpdate(voiceSettings, gesture), gesture)

\* the labels simulateEmotionDetection draws from: the keys of `emotions'
DetectorEmotions == {"happy", "sad", "angry", "surprised", "neutral"}

\* the values of the customizer's emotion radio group
CustomizerEmotions == {"neutral", "happy", "sad", "angry", "excited"}

\* handleEmotionDetected without the spread of the previous settings
EmotionUpdateResets(vs, detected) == [InitVoiceSettings EXCEPT !.emotion = detected]

\* handleEmotionDetected: setVoiceSettings(prev => ({ ...prev, emotion }))
EmotionUpdate(vs, detected) == [vs EXCEPT !.emotion = detected]

\* an emotion report received by Home
EmotionDetected(detected) ==
    WriteVoiceSettings(EmotionUpdate(voiceSettings, detected), "emotion")

\* the emotion radio group: onChange({ emotion: value })
SelectEmotion(value) ==
    /\ value # voiceSettings.emotion
    /\ WriteVoiceSettings([voiceSettings EXCEPT !.emotion = value], "selectEmotion")

\* handleEnvironmentChange(newSettings): a shallow merge of one field
MergeNoiseLevel(env, level) == [env EXCEPT !.noiseLevel = level]

\* handleEnvironmentChange({ noiseLevel }) as Home receives it
EnvironmentChange(level) ==
    /\ level # environmentSettings.noiseLevel
    /\ environmentSettings' = MergeNoiseLevel(environmentSettings, level)
    /\ last' = Did("noiseLevel", <<>>)
    /\ UNCHANGED <<voiceSettings, playerVars, noiseVars, bench, cameraVars, budget>>

\* toggleAdaptation(): onChange({ adaptToNoise: !settings.adaptToNoise })
ToggleAdaptation ==
    /\ noise.mounted
    /\ environmentSettings' = [environmentSettings EXCEPT !.adaptToNoise = ~@]
    /\ last' = Did("adapt", <<>>)
    /\ UNCHANGED <<voiceSettings, playerVars, noiseVars, bench, cameraVars, budget>>

(***************************************************************************)
(* NoiseDetector.                                                          *)
(***************************************************************************)
\* analyser.frequencyBinCount
BufferLength == FftSize \div 2

\* Math.min(100, Math.max(0, average * 1.5)) in 1/256ths, average = sum / 128:
\* 256 * 1.5 * sum / 128 = 3 * sum
Normalize(sum) == Min(NormMax * FftSize, Max(0, (sum * 15 * FftSize) \div (10 * BufferLength)))

\* normalizedValue >= 60
AtOrAboveHigh(normalizedValue) == normalizedValue >= HighThreshold * FftSize

\* normalizedValue > 60
AboveHigh(normalizedValue) == normalizedValue > HighThreshold * FftSize

\* normalizedValue < 20
BelowLow(normalizedValue) == normalizedValue < LowThreshold * FftSize

\* the level of updateAnalysis
Classify(normalizedValue) ==
    IF BelowLow(normalizedValue) THEN "low"
    ELSE IF AboveHigh(normalizedValue) THEN "high"
    ELSE "normal"

\* the level named by the label the monitor renders for noiseValue
DisplayedLevel(noiseValue) ==
    IF noiseValue < LowThreshold * FftSize THEN "low"
    ELSE IF noiseValue < HighThreshold * FftSize THEN "normal"
    ELSE "high"

NoTick == [level |-> "none", emitted |-> FALSE]

InitNoise == [mounted |-> TRUE, isListening |-> FALSE, micPermission |-> "pending",
              noiseValue |-> 0, micStreamRef |-> 0, audioContextRef |-> 0,
              analyserRef |-> FALSE, animationFrameRef |-> 0, liveStreams |-> {},
              openContexts |-> {}, lastTick |-> NoTick, prevTick |-> NoTick]

\* the byte sums the ambient sound takes in the exploration of the monitor:
\* silence, a normal level, exactly 60, just above 60, and the loudest frame
AmbientSums == {0, 10 * BufferLength, 40 * BufferLength, 40 * BufferLength + 1,
                ByteMax * BufferLength}

\* one run of updateAnalysis by a loop whose closure holds `captured':
\* what it leaves in the component and in the store
AnalysisNoise(n, sum, captured, id) ==
    LET normalizedValue == Normalize(sum)
        noiseLevel == Classify(normalizedValue)
    IN [n EXCEPT !.noiseValue = IF n.mounted THEN normalizedValue ELSE @,
                 !.animationFrameRef = id,
                 !.prevTick = n.lastTick,
                 !.lastTick = [level |-> noiseLevel,
                               emitted |-> noiseLevel # captured]]

\* if (noiseLevel !== settings.noiseLevel) onChange({ noiseLevel })
AnalysisStore(env, sum, captured) ==
    LET noiseLevel == Classify(Normalize(sum))
    IN IF noiseLevel # captured THEN MergeNoiseLevel(env, noiseLevel) ELSE env

\* a click on "Start listening": getUserMedia is requested by the closure of
\* this render, which holds this render's settings
StartListening ==
    /\ noise.mounted /\ ~noise.isListening
    /\ Len(micPending) < MaxPending
    /\ micPending' = Append(micPending, environmentSettings.noiseLevel)
    /\ last' = Did("startListening", <<>>)
    /\ UNCHANGED <<storeVars, playerVars, noise, loops, bench, cameraVars, budget>>

\* getUserMedia resolves: the rest of startListening, with the first
\* updateAnalysis run inside analyzeAudio()
MicGranted(sum) ==
    /\ micPending # <<>>
    /\ budget.grants < MaxGrants
    /\ LET captured == Head(micPending)
           id == budget.grants + 1
           acquired == [noise EXCEPT !.micStreamRef = id,
                                     !.liveStreams = @ \cup {id},
                                     !.audioContextRef = id,
                                     !.openContexts = @ \cup {id},
                                     !.analyserRef = TRUE,
                                     !.micPermission = IF noise.mounted THEN "granted" ELSE @,
                                     !.isListening = IF noise.mounted THEN TRUE ELSE @]
       IN /\ noise' = AnalysisNoise(acquired, sum, captured, id)
          /\ environmentSettings' = AnalysisStore(environmentSettings, sum, captured)
          /\ loops' = loops \cup {[id |-> id, captured |-> captured]}
    /\ micPending' = Tail(micPending)
    /\ budget' = [budget EXCEPT !.grants = @ + 1]
    /\ last' = Did("micGranted", <<>>)
    /\ UNCHANGED <<voiceSettings, playerVars, bench, cameraVars>>

\* getUserMedia rejects
MicDenied ==
    /\ micPending # <<>>
    /\ micPending' = Tail(micPending)
    /\ noise' = [noise EXCEPT !.micPermission = IF noise.mounted THEN "denied" ELSE @]
    /\ last' = Did("micDenied", <<>>)
    /\ UNCHANGED <<storeVars, playerVars, loops, bench, cameraVars, budget>>

\* stopListening(): what it releases
Released(n) ==
    [n EXCEPT !.liveStreams = @ \ {n.micStreamRef},
              !.micStreamRef = 0,
              !.openContexts = @ \ {n.audioContextRef},
              !.audioContextRef = 0,
              !.animationFrameRef = 0,
              !.isListening = IF n.mounted THEN FALSE ELSE @,
              !.lastTick = NoTick,
              !.prevTick = NoTick]

\* cancelAnimationFrame(animationFrameRef.current)
Cancelled(ls, n) == {l \in ls : l.id # n.animationFrameRef}

\* a click on "Stop listening"
StopListening ==
    /\ noise.mounted /\ noise.isListening
    /\ noise' = Released(noise)
    /\ loops' = Cancelled(loops, noise)
    /\ last' = Did("stopListening", <<>>)
    /\ UNCHANGED <<storeVars, playerVars, micPending, bench, cameraVars, budget>>

\* the cleanup of the unmount effect: stopListening()
NoiseUnmount ==
    /\ noise.mounted
    /\ noise' = [Released(noise) EXCEPT !.mounted = FALSE, !.isListening = noise.isListening]
    /\ loops' = Cancelled(loops, noise)
    /\ last' = Did("noiseUnmount", <<>>)
    /\ UNCHANGED <<storeVars, playerVars, micPending, bench, cameraVars, budget>>

\* an animation frame of a sampling loop: updateAnalysis
NoiseTick(l, sum) ==
    /\ l \in loops
    /\ noise.analyserRef
    /\ noise' = AnalysisNoise(noise, sum, l.captured, l.id)
    /\ environmentSettings' = AnalysisStore(environmentSettings, sum, l.captured)
    /\ last' = Did("noiseTick", <<>>)
    /\ UNCHANGED <<voiceSettings, playerVars, loops, micPending, bench, cameraVars, budget>>

(***************************************************************************)
(* GestureController.  A getUserMedia request in flight is the closure of   *)
(* the render that made it: it holds that render's `enabled'.               *)
(***************************************************************************)
InitGesture == [mounted |-> TRUE, enabled |-> FALSE, cameraPermission |-> "pending",
                streamRef |-> 0, animationFrameRef |-> 0, liveStreams |-> {},
                loops |-> {}, acquired |-> 0, started |-> 0]

\* a <video> and a <canvas> rendered whatever the camera permission is
VideoRefAlways(g) == g.mounted

\* videoRef.current and canvasRef.current: the <video> and the <canvas> are
\* rendered only while cameraPermission === "granted"
VideoRef(g) == g.mounted /\ g.cameraPermission = "granted"

\* startGestureDetection() of a render whose `enabled' is given: the first
\* detectGestures() runs at once and requests the next frame
StartGestureDetection(g, enabled) ==
    IF ~enabled \/ ~VideoRef(g) THEN g
    ELSE [g EXCEPT !.started = @ + 1,
                   !.loops = @ \cup {g.started + 1},
                   !.animationFrameRef = g.started + 1]

\* stopGestureDetection()
StopGestureDetection(g) ==
    [g EXCEPT !.loops = @ \ {g.animationFrameRef}, !.animationFrameRef = 0]

\* the effect on [enabled, cameraPermission]: what it does to the component
ToggleEffect(g) ==
    IF g.enabled
    THEN IF g.cameraPermission = "granted" THEN StartGestureDetection(g, g.enabled)
         ELSE g
    ELSE StopGestureDetection(g)

\* the effect on [enabled, cameraPermission]: the startCamera() it makes
ToggleEffectRequests(g, pending) ==
    IF g.enabled /\ g.cameraPermission = "pending"
    THEN Append(pending, [enabled |-> g.enabled])
    ELSE pending

\* the switch "Enable Gesture Control": onToggle, then the toggle effect
GestureToggle ==
    /\ gestureCtl.mounted
    /\ LET toggled == [gestureCtl EXCEPT !.enabled = ~@]
       IN /\ Len(ToggleEffectRequests(toggled, camPending)) <= MaxPending
          /\ gestureCtl' = ToggleEffect(toggled)
          /\ camPending' = ToggleEffectRequests(toggled, camPending)
    /\ last' = Did("gestureToggle", <<>>)
    /\ UNCHANGED <<storeVars, playerVars, noiseVars, emotion, emoPending, bench, budget>>

\* the button "Setup Camera": startCamera()
SetupCamera ==
    /\ gestureCtl.mounted /\ gestureCtl.cameraPermission = "pending"
    /\ Len(camPending) < MaxPending
    /\ camPending' = Append(camPending, [enabled |-> gestureCtl.enabled])
    /\ last' = Did("setupCamera", <<>>)
    /\ UNCHANGED <<storeVars, playerVars, noiseVars, gestureCtl, emotion, emoPending,
                   bench, budget>>

\* getUserMedia resolves: the rest of startCamera(), then the toggle effect
\* if cameraPermission changed
CameraGranted ==
    /\ camPending # <<>>
    /\ gestureCtl.acquired < MaxGrants
    /\ LET id == gestureCtl.acquired + 1
           acquired == [gestureCtl EXCEPT !.acquired = id, !.streamRef = id,
                                       !.liveStreams = @ \cup {id}]
           granted == [acquired EXCEPT !.cameraPermission = "granted"]
       IN gestureCtl' =
            IF ~VideoRef(gestureCtl) THEN acquired
            ELSE LET detecting == StartGestureDetection(granted, Head(camPending).enabled)
                 IN IF gestureCtl.cameraPermission = "granted" THEN detecting
                    ELSE ToggleEffect(detecting)
    /\ camPending' = Tail(camPending)
    /\ last' = Did("cameraGranted", <<>>)
    /\ UNCHANGED <<storeVars, playerVars, noiseVars, emotion, emoPending, bench, budget>>

\* getUserMedia rejects: the catch of startCamera(), then the toggle effect
\* if cameraPermission changed
CameraDenied ==
    /\ camPending # <<>>
    /\ gestureCtl' =
         IF ~gestureCtl.mounted \/ gestureCtl.cameraPermission = "denied" THEN gestureCtl
         ELSE ToggleEffect([gestureCtl EXCEPT !.cameraPermission = "denied"])
    /\ camPending' = Tail(camPending)
    /\ last' = Did("cameraDenied", <<>>)
    /\ UNCHANGED <<storeVars, playerVars, noiseVars, emotion, emoPending, bench, budget>>

\* stopCamera()
StopCamera(g) ==
    [g EXCEPT !.liveStreams = @ \ {g.streamRef}, !.streamRef = 0,
              !.loops = @ \ {g.animationFrameRef}, !.animationFrameRef = 0]

\* the cleanup of the unmount effect: stopCamera()
GestureUnmount ==
    /\ gestureCtl.mounted
    /\ gestureCtl' = [StopCamera(gestureCtl) EXCEPT !.mounted = FALSE]
    /\ last' = Did("gestureUnmount", <<>>)
    /\ UNCHANGED <<storeVars, playerVars, noiseVars, camPending, emotion, emoPending,
                   bench, budget>>

(***************************************************************************)
(* EmotionDetector.  A getUserMedia request in flight holds the             *)
(* `isDetecting' of the render whose startDetection made it.                *)
(***************************************************************************)
InitEmotion == [mounted |-> TRUE, isDetecting |-> FALSE, cameraPermission |-> "pending",
                streamRef |-> 0, liveStreams |-> {}, loops |-> {}, acquired |-> 0]

\* videoRef.current: the <video> is rendered only while
\* cameraPermission === "granted"
EmotionVideoRef(e) == e.mounted /\ e.cameraPermission = "granted"

\* detectEmotions() of a render whose `isDetecting' is given
DetectEmotions(e, detecting) ==
    IF ~detecting THEN e ELSE [e EXCEPT !.loops = @ \cup {e.acquired}]

\* the button "Enable Camera", rendered unless the permission is granted:
\* startDetection()
EnableCamera ==
    /\ emotion.mounted /\ emotion.cameraPermission # "granted"
    /\ Len(emoPending) < MaxPending
    /\ emoPending' = Append(emoPending, [isDetecting |-> emotion.isDetecting])
    /\ last' = Did("enableCamera", <<>>)
    /\ UNCHANGED <<storeVars, playerVars, noiseVars, gestureCtl, camPending, emotion,
                   bench, budget>>

\* getUserMedia resolves: the rest of startDetection()
EmotionGranted ==
    /\ emoPending # <<>>
    /\ emotion.acquired < MaxGrants
    /\ LET id == emotion.acquired + 1
           acquired == [emotion EXCEPT !.acquired = id, !.streamRef = id,
                                       !.liveStreams = @ \cup {id}]
       IN emotion' =
            IF ~EmotionVideoRef(emotion) THEN acquired
            ELSE DetectEmotions([acquired EXCEPT !.cameraPermission = "granted",
                                                 !.isDetecting = TRUE],
                                Head(emoPending).isDetecting)
    /\ emoPending' = Tail(emoPending)
    /\ last' = Did("emotionGranted", <<>>)
    /\ UNCHANGED <<storeVars, playerVars, noiseVars, gestureCtl, camPending, bench, budget>>

\* getUserMedia rejects: the catch of startDetection()
EmotionDenied ==
    /\ emoPending # <<>>
    /\ emotion' = [emotion EXCEPT !.cameraPermission = IF emotion.mounted THEN "denied" ELSE @]
    /\ emoPending' = Tail(emoPending)
    /\ last' = Did("emotionDenied", <<>>)
    /\ UNCHANGED <<storeVars, playerVars, noiseVars, gestureCtl, camPending, bench, budget>>

\* the stop button, rendered only while isDetecting: stopDetection()
StopDetection ==
    /\ emotion.mounted /\ emotion.isDetecting
    /\ emotion' = [emotion EXCEPT !.liveStreams = @ \ {emotion.streamRef},
                                  !.streamRef = 0, !.isDetecting = FALSE]
    /\ last' = Did("stopDetection", <<>>)
    /\ UNCHANGED <<storeVars, playerVars, noiseVars, gestureCtl, camPending, emoPending,
                   bench, budget>>

\* the cleanup of the unmount effect: the tracks of streamRef.current are stopped
EmotionUnmount ==
    /\ emotion.mounted
    /\ emotion' = [emotion EXCEPT !.liveStreams = @ \ {emotion.streamRef},
                                  !.mounted = FALSE]
    /\ last' = Did("emotionUnmount", <<>>)
    /\ UNCHANGED <<storeVars, playerVars, noiseVars, gestureCtl, camPending, emoPending,
                   bench, budget>>

(***************************************************************************)
(* The classification of updateAnalysis on its own: a frame of byte sum     *)
(* `sum' is analysed.                                                       *)
(***************************************************************************)
\* the byte sums around the two thresholds, and the two extremes
BenchSums ==
    LET low == (LowThreshold * FftSize) \div 3
        high == (HighThreshold * FftSize) \div 3
    IN {0, ByteMax * BufferLength}
       \cup ((low - SumWindow) .. (low + SumWindow))
       \cup ((high - SumWindow) .. (high + SumWindow))

IdleBench == [phase |-> "idle", sum |-> 0, normalizedValue |-> 0, noiseLevel |-> "none"]

\* getByteFrequencyData fills the frame
BenchSample(sum) ==
    /\ bench.phase = "idle"
    /\ bench' = [bench EXCEPT !.phase = "sampled", !.sum = sum]
    /\ UNCHANGED <<storeVars, playerVars, noiseVars, cameraVars, budget, last>>

\* the normalization and the classification of updateAnalysis on that frame
BenchAnalyze ==
    /\ bench.phase = "sampled"
    /\ bench' = [phase |-> "done", sum |-> bench.sum,
                 normalizedValue |-> Normalize(bench.sum),
                 noiseLevel |-> Classify(Normalize(bench.sum))]
    /\ UNCHANGED <<storeVars, playerVars, noiseVars, cameraVars, budget, last>>

\* the next animation frame
BenchNext ==
    /\ bench.phase = "done"
    /\ bench' = IdleBench
    /\ UNCHANGED <<storeVars, playerVars, noiseVars, cameraVars, budget, last>>

(***************************************************************************)
(* Initial state and specifications.                                       *)
(***************************************************************************)
\* the lengths of the texts typed into the textarea: the empty text and "Hi".
\* The handlers read text.length and text.trim() only; a typed text is taken
\* to be non-blank when it is not empty.
EditLens == {0, 2}

\* The state after construction, the user having typed a short text in place
\* of the 152-character sample text (tts-player.tsx:27), whose ticker would
\* need 7600 callbacks to finish.
Init ==
    /\ voiceSettings = InitVoiceSettings
    /\ environmentSettings = InitEnvironmentSettings
    /\ mounted = TRUE
    /\ text \in EditLens \ {0}
    /\ isPlaying = FALSE
    /\ progress = Zero
    /\ isMuted = FALSE
    /\ isListening = FALSE
    /\ interruptionDetected = FALSE
    /\ speechSynthRef = NoUtterance
    /\ intervals = {}
    /\ windowTimers = 0
    /\ processTimers = 0
    /\ synthAvailable \in BOOLEAN
    /\ synth = [state |-> "idle", paused |-> FALSE]
    /\ noise = InitNoise
    /\ loops = {}
    /\ micPending = <<>>
    /\ gestureCtl = InitGesture /\ camPending = <<>>
    /\ emotion = InitEmotion /\ emoPending = <<>>
    /\ bench = IdleBench
    /\ budget = [ticks |-> 0, windows |-> 0, grants |-> 0]
    /\ last = [op |-> "init", calls |-> <<>>, wasPlaying |-> FALSE, wasProgress |-> Zero]

\* the rates the playback exploration moves the rate slider to
PlayerRates == {SliderRateMax}

\* TTSPlayer with its ticker, its timers and the speech service; the rate
\* slider moves.  Muting, which touches no playback state, is explored with
\* the volume path below.
NextPlayer ==
    \/ Speak
    \/ OnStart
    \/ OnEnd
    \/ OnError
    \/ Pause
    \/ Resume
    \/ Stop
    \/ ToggleListening
    \/ WindowElapsed
    \/ ProcessElapsed
    \/ \E len \in EditLens : EditText(len)
    \/ \E iv \in intervals : Tick(iv)
    \/ \E value \in PlayerRates : SliderRate(value)
    \/ Unmount

SpecPlayer == Init /\ [][NextPlayer]_vars

\* the volume path: the store's writers and the handlers of TTSPlayer that
\* read or write a volume
NextVolume ==
    \/ Speak
    \/ OnStart
    \/ OnEnd
    \/ Stop
    \/ ToggleMute
    \/ \E value \in SliderVolumeMin .. SliderVolumeMax : SliderVolume(value)
    \/ \E gesture \in {"volume-up", "volume-down"} : Gesture(gesture)
    \/ ToggleAdaptation
    \/ \E level \in NoiseLevels : EnvironmentChange(level)

SpecVolume == Init /\ [][NextVolume]_vars

\* the settings store under the sliders and the gestures
NextStore ==
    \/ \E value \in SliderRateMin .. SliderRateMax : SliderRate(value)
    \/ \E value \in SliderPitchMin .. SliderPitchMax : SliderPitch(value)
    \/ \E value \in SliderVolumeMin .. SliderVolumeMax : SliderVolume(value)
    \/ \E gesture \in Gestures : Gesture(gesture)

SpecStore == Init /\ [][NextStore]_vars

\* NoiseDetector and the store it reports to
NextNoise ==
    \/ StartListening
    \/ \E sum \in AmbientSums : MicGranted(sum)
    \/ MicDenied
    \/ StopListening
    \/ \E l \in loops, sum \in AmbientSums : NoiseTick(l, sum)
    \/ ToggleAdaptation
    \/ NoiseUnmount

SpecNoise == Init /\ [][NextNoise]_vars

\* the classification alone
\* the events Home receives from the monitors and the emotion radio group
NextSettings ==
    \/ \E g \in Gestures : Gesture(g)
    \/ \E e \in DetectorEmotions : EmotionDetected(e)
    \/ \E v \in CustomizerEmotions : SelectEmotion(v)
    \/ \E level \in NoiseLevels : EnvironmentChange(level)

SpecSettings == Init /\ [][NextSettings]_vars

\* startCamera() can be asked for: by the toggle effect or the Setup Camera
\* button, both only while cameraPermission is pending
GestureCanRequest == gestureCtl.mounted /\ gestureCtl.cameraPermission = "pending"

\* the Enable Camera button is rendered
EmotionCanRequest == emotion.mounted /\ emotion.cameraPermission # "granted"

\* the button reads "Start listening"
NoiseCanRequest == noise.mounted /\ ~noise.isListening

\* the two camera monitors
NextCamera ==
    \/ GestureToggle \/ SetupCamera \/ CameraGranted \/ CameraDenied \/ GestureUnmount
    \/ EnableCamera \/ EmotionGranted \/ EmotionDenied \/ EmotionUnmount

SpecCamera == Init /\ [][NextCamera]_vars

InitBench == Init /\ synthAvailable

NextBench ==
    \/ \E sum \in BenchSums : BenchSample(sum)
    \/ BenchAnalyze
    \/ BenchNext

SpecBench == InitBench /\ [][NextBench]_vars

\* everything together
Next == NextPlayer \/ NextVolume \/ NextStore \/ NextNoise \/ NextCamera \/ NextSettings

Spec == Init /\ [][Next]_vars

(***************************************************************************)
(* The claims.                                                             *)
(***************************************************************************)
ServiceAsked(l, call) == \E i \in DOMAIN l.calls : l.calls[i] = call

\* pause() has run in the last step: from the Pause button or from the
\* interruption timer
PauseRan(l) == l.op \in {"pause", "window"}

\* C1: pause() is a no-op unless the player is speaking: whenever pause()
\* runs while isPlaying is false, isPlaying, progress and the ticker keep
\* their values and the speech service receives no pause request.
C1_PauseIsNoOpUnlessSpeaking ==
    [][(PauseRan(last') /\ ~isPlaying)
         => /\ isPlaying' = isPlaying
            /\ progress' = progress
            /\ intervals' = intervals
            /\ ~ServiceAsked(last', "pause")]_vars

\* the status Paused: the utterance has started, pause() has paused it, and
\* it has not been stopped, ended or failed since
Paused == ~isPlaying /\ synth.state = "speaking" /\ synth.paused

\* C2: resume() is a no-op unless the status is Paused: whenever resume()
\* runs in another state, the player stays not speaking and no ticker is
\* started.
C2_ResumeIsNoOpUnlessPaused ==
    [][(last'.op = "resume" /\ ~Paused)
         => (~isPlaying' /\ intervals' = intervals)]_vars

\* C3: after stop(), with the speech facility present, progress is 0 and
\* the player is not speaking, whatever the status and the progress were.
C3_StopResetsProgress ==
    (last.op = "stop" /\ synthAvailable) => (progress = 0 /\ ~isPlaying)

\* stop() has run on a paused player whose progress was strictly between 0 and 100
C3_Witness ==
    /\ last.op = "stop" /\ synthAvailable
    /\ ~last.wasPlaying /\ last.wasProgress > 0 /\ last.wasProgress < Hundred
    /\ progress = 0

\* not speaking, progress 0, no ticker, nothing queued in the speech service
StoppedIdle == ~isPlaying /\ progress = 0 /\ intervals = {} /\ synth.state = "idle"

\* C4: speak() then stop() before completion: stop() leaves the player
\* stopped with progress 0 and no ticker, and from then on no ticker callback
\* fires and progress stays 0 until the next speak() (resume() is not offered
\* at progress 0).
C4_NoTickAfterStop ==
    [][/\ (last'.op = "stop" /\ synthAvailable /\ mounted) => StoppedIdle'
       /\ (StoppedIdle /\ last'.op # "speak") => (StoppedIdle' /\ last'.op # "tick")]_vars

\* stop() has run on a speaking player whose ticker had ticked, a timer of
\* the interruption loop still pending
C4_Witness ==
    /\ last.op = "stop" /\ synthAvailable
    /\ last.wasPlaying /\ last.wasProgress > 0 /\ last.wasProgress < Hundred
    /\ budget.ticks > 0 /\ windowTimers > 0
    /\ StoppedIdle

\* speak() has just handed an utterance to the speech service
Spoke == last.op = "speak" /\ synthAvailable

Adapting == environmentSettings.adaptToNoise /\ environmentSettings.noiseLevel = "high"

\* C5 as stated: for every utterance started by speak() while adaptToNoise is
\* true and the noise level is high, the volume passed to the speech service
\* is min(1.0, storedVolume * 1.5).
C5_BoostedVolume_AsStated ==
    (Spoke /\ Adapting)
      => speechSynthRef.volume = Min(100, (voiceSettings.volume * 3) \div 2)

\* C5, amended: the same for a player that is not muted; for a muted player
\* the volume passed is 0.
C5_BoostedVolume ==
    (Spoke /\ Adapting)
      => speechSynthRef.volume =
           IF isMuted THEN 0 ELSE Min(100, (voiceSettings.volume * 3) \div 2)

\* speak() at stored volume 0.5 under high noise: 0.75 is passed
C5_Witness ==
    /\ Spoke /\ Adapting /\ ~isMuted
    /\ voiceSettings.volume = 50 /\ speechSynthRef.volume = 75

\* C6 as stated: for every utterance started by speak() while adaptToNoise is
\* false, the volume passed to the speech service is the stored volume.
C6_PlainVolume_AsStated ==
    (Spoke /\ ~environmentSettings.adaptToNoise)
      => speechSynthRef.volume = voiceSettings.volume

\* C6, amended: the same for a player that is not muted; for a muted player
\* the volume passed is 0.
C6_PlainVolume ==
    (Spoke /\ ~environmentSettings.adaptToNoise)
      => speechSynthRef.volume = IF isMuted THEN 0 ELSE voiceSettings.volume

\* speak() at stored volume 1.5 under high noise with adaptation off
C6_Witness ==
    /\ Spoke /\ ~environmentSettings.adaptToNoise /\ ~isMuted
    /\ environmentSettings.noiseLevel = "high"
    /\ voiceSettings.volume = 150 /\ speechSynthRef.volume = 150

\* C7: after any sequence of slider moves and gesture events, rate and pitch
\* are in [0.5, 2.0] and volume is in [0.1, 2.0].
C7_Clamping ==
    /\ voiceSettings.rate >= 5 /\ voiceSettings.rate <= 20
    /\ voiceSettings.pitch >= 5 /\ voiceSettings.pitch <= 20
    /\ voiceSettings.volume >= 10 /\ voiceSettings.volume <= 200

\* a volume-up gesture at the upper clamp, the rate at the lower one
C7_Witness ==
    /\ last.op = "volume-up"
    /\ voiceSettings.volume = 200 /\ voiceSettings.rate = 5

\* a sampling tick has run in the last step
Sampled == last.op \in {"noiseTick", "micGranted"}

\* C8: while the monitor is listening, after every sampling tick the stored
\* noise level is one of low, normal, high and is the classification of that
\* tick's sample.
C8_StoreFollowsSample ==
    (Sampled /\ noise.isListening)
      => /\ environmentSettings.noiseLevel \in NoiseLevels
         /\ environmentSettings.noiseLevel = noise.lastTick.level

\* C9: a tick emits a level change only when its classification differs from
\* the level the store holds, and of two consecutive ticks with the same
\* classification at most one emits.
C9_EmitsOnlyOnChange ==
    [][(Sampled' /\ noise'.lastTick.emitted)
         => /\ noise'.lastTick.level # environmentSettings.noiseLevel
            /\ ~(noise'.prevTick.level = noise'.lastTick.level
                 /\ noise'.prevTick.emitted)]_vars

\* C10: with normalized = min(100, max(0, average * 1.5)), a value below 20
\* classifies as low, a value from 20 to 60 inclusive as normal, a value above
\* 60 as high (values in 1/256ths, average = sum / 128).
C10_Classification ==
    bench.phase = "done"
      => LET n == bench.normalizedValue
         IN /\ n = Min(100 * 256, Max(0, 3 * bench.sum))
            /\ (n < 20 * 256) => bench.noiseLevel = "low"
            /\ (n >= 20 * 256 /\ n <= 60 * 256) => bench.noiseLevel = "normal"
            /\ (n > 60 * 256) => bench.noiseLevel = "high"

\* a frame whose normalized value is exactly 60.0 has been classified normal
C10_Witness ==
    /\ bench.phase = "done"
    /\ bench.normalizedValue = 60 * 256
    /\ bench.noiseLevel = "normal"

C12_StopReleasesCamera ==
    /\ (last.op = "gestureToggle" /\ ~gestureCtl.enabled) => gestureCtl.liveStreams = {}
    /\ last.op = "stopDetection" => emotion.liveStreams = {}

\* C13: once a monitor is unmounted, none of the device streams it acquired
\* is live and none of its sampling loops runs, also when a permission
\* request pending at the unmount is granted afterwards.
C13_TeardownReleasesAll ==
    /\ ~noise.mounted => (noise.liveStreams = {} /\ loops = {})
    /\ ~gestureCtl.mounted => (gestureCtl.liveStreams = {} /\ gestureCtl.loops = {})
    /\ ~emotion.mounted => (emotion.liveStreams = {} /\ emotion.loops = {})

\* C14: stopListening() releases the microphone stream, closes the audio
\* context and cancels the sampling loop: right after it nothing is live, and
\* no tick runs or emits until the next startListening().
C14_StopListeningCancelsAll ==
    [][/\ last'.op = "stopListening"
            => (noise'.liveStreams = {} /\ noise'.openContexts = {} /\ loops' = {})
       /\ (last.op = "stopListening" /\ micPending = <<>>) => last'.op # "noiseTick"]_vars

\* C15: the noise monitor never has more than one sampling loop, more than
\* one live microphone stream or more than one open audio context, and its
\* one cancellation token is the handle of the only loop.
C15_OneLoopOneStream ==
    /\ Cardinality(loops) <= 1
    /\ Cardinality(noise.liveStreams) <= 1
    /\ Cardinality(noise.openContexts) <= 1
    /\ \A l \in loops : noise.animationFrameRef = l.id

\* C16: when a listen window elapses, pause() is invoked and
\* interruptionDetected is set if and only if the player is speaking at that
\* moment.
C16_InterruptsOnlyWhileSpeaking ==
    [][last'.op = "window"
         => ((ServiceAsked(last', "pause") /\ interruptionDetected') <=> isPlaying)]_vars

\* C17: interruptionDetected implies listening, in every reachable state.
C17_ListeningWhileInterrupted == interruptionDetected => isListening

\* C18: with the speech facility absent, speak(), pause(), resume() and
\* stop() change neither the status, the progress nor the ticker, ask
\* nothing of the service and create no utterance.
C18_UnavailableNoOps ==
    [][(~synthAvailable /\ last'.op \in {"speak", "pause", "resume", "stop", "window"})
         => /\ isPlaying' = isPlaying /\ progress' = progress
            /\ intervals' = intervals
            /\ synth' = synth
            /\ speechSynthRef' = speechSynthRef /\ speechSynthRef' = NoUtterance
            /\ last'.calls = <<>>]_vars

\* speak() has been clicked with the speech facility absent
C18_Witness ==
    /\ ~synthAvailable /\ last.op = "speak"
    /\ ~isPlaying /\ progress = 0 /\ intervals = {} /\ speechSynthRef = NoUtterance

\* C19: after the error callback the player is not speaking, no ticker
\* runs, Resume is not offered and nothing is queued again in the speech
\* service.
C19_ErrorResetsToIdle ==
    last.op = "error"
      => /\ ~isPlaying
         /\ \A iv \in intervals : ~iv.cur
         /\ ~Resumable
         /\ synth.state = "idle"

\* C20: the unmount cancels the synthesis in flight and every timer of the
\* player, so that after it no callback of the progress ticker or of the
\* interruption timers fires.
C20_NoTimerAfterUnmount ==
    [][/\ (last'.op = "unmount" /\ synthAvailable)
            => (synth'.state = "idle" /\ ServiceAsked(last', "cancel"))
       /\ ~mounted => last'.op \notin {"tick", "window", "process"}]_vars

\* C21: once the text has been cleared the playback status is Idle: the
\* player is not speaking, no ticker runs and Resume is not offered.
C21_TextClearGoesIdle ==
    (last.op = "edit" /\ text = 0)
      => (~isPlaying /\ intervals = {} /\ ~Resumable)

\* C22: toggleMute() leaves the playback status, the progress and every
\* stored voice setting as they were, and when it mutes, the volume of the
\* live utterance becomes 0.
C22_MuteIsOrthogonal ==
    [][last'.op = "mute"
         => /\ isPlaying' = isPlaying /\ progress' = progress
            /\ intervals' = intervals /\ synth' = synth
            /\ voiceSettings' = voiceSettings
            /\ environmentSettings' = environmentSettings
            /\ isMuted' = ~isMuted
            /\ (isMuted' /\ speechSynthRef # NoUtterance) => speechSynthRef'.volume = 0]_vars

\* the player has been muted while speaking at a stored volume above 0
C22_Witness ==
    /\ last.op = "mute" /\ isMuted /\ isPlaying
    /\ speechSynthRef # NoUtterance /\ speechSynthRef.volume = 0
    /\ voiceSettings.volume > 0

\* C23: a refused device request leaves the monitor in the denied state;
\* in the denied state the user can still ask again, and a grant that arrives
\* in the denied state moves the monitor to granted.
C23_DeniedThenRetry ==
    [][/\ (last'.op = "cameraDenied" /\ gestureCtl.mounted)
            => gestureCtl'.cameraPermission = "denied"
       /\ (last'.op = "emotionDenied" /\ emotion.mounted)
            => emotion'.cameraPermission = "denied"
       /\ (last'.op = "micDenied" /\ noise.mounted)
            => noise'.micPermission = "denied"
       /\ (gestureCtl'.mounted /\ gestureCtl'.cameraPermission = "denied")
            => GestureCanRequest'
       /\ (emotion'.mounted /\ emotion'.cameraPermission = "denied")
            => EmotionCanRequest'
       /\ (noise'.mounted /\ noise'.micPermission = "denied" /\ ~noise'.isListening)
            => NoiseCanRequest'
       /\ (last'.op = "cameraGranted" /\ gestureCtl.mounted
             /\ gestureCtl.cameraPermission = "denied")
            => gestureCtl'.cameraPermission = "granted"
       /\ (last'.op = "emotionGranted" /\ emotion.mounted
             /\ emotion.cameraPermission = "denied")
            => emotion'.cameraPermission = "granted"
       /\ (last'.op = "micGranted" /\ noise.mounted /\ noise.micPermission = "denied")
            => noise'.micPermission = "granted"]_vars

\* C24: in the emotion and gesture monitors, a stream delivered for a
\* request while the permission is pending makes the permission granted, and
\* the permission becomes denied only by a refusal.
C24_GrantMakesGranted ==
    [][/\ (last'.op = "cameraGranted" /\ gestureCtl.mounted
             /\ gestureCtl.cameraPermission = "pending")
            => gestureCtl'.cameraPermission = "granted"
       /\ (last'.op = "emotionGranted" /\ emotion.mounted
             /\ emotion.cameraPermission = "pending")
            => emotion'.cameraPermission = "granted"
       /\ (gestureCtl'.cameraPermission = "denied" /\ gestureCtl.cameraPermission # "denied")
            => last'.op = "cameraDenied"
       /\ (emotion'.cameraPermission = "denied" /\ emotion.cameraPermission # "denied")
            => last'.op = "emotionDenied"]_vars

\* C25: once the user has started emotion detection and the camera has been
\* granted, the sample loop runs (so that samples are reported until
\* detection is stopped).
C25_EmotionLoopRuns ==
    [][(last'.op = "emotionGranted" /\ emotion.mounted)
         => (emotion'.isDetecting /\ emotion'.loops # {})]_vars

\* C26: an emotion report changes only the emotion field of the voice
\* settings, a speed gesture only the rate, a volume gesture only the volume;
\* the environment settings are unchanged by all of them, and the stored
\* emotion is always one of neutral, happy, sad, angry, excited, surprised.
C26_MonitorsWriteTheirField ==
    [][/\ last'.op = "emotion"
            => /\ voiceSettings' = [voiceSettings EXCEPT !.emotion = voiceSettings'.emotion]
               /\ environmentSettings' = environmentSettings
       /\ last'.op \in {"speed-up", "speed-down"}
            => /\ voiceSettings' = [voiceSettings EXCEPT !.rate = voiceSettings'.rate]
               /\ environmentSettings' = environmentSettings
       /\ last'.op \in {"volume-up", "volume-down"}
            => /\ voiceSettings' = [voiceSettings EXCEPT !.volume = voiceSettings'.volume]
               /\ environmentSettings' = environmentSettings
       /\ voiceSettings'.emotion
            \in {"neutral", "happy", "sad", "angry", "excited", "surprised"}]_vars

\* an emotion report has set "surprised" after gestures had moved the rate
\* and the volume away from their defaults
C26_Witness ==
    /\ last.op = "emotion" /\ voiceSettings.emotion = "surprised"
    /\ voiceSettings.rate = 12 /\ voiceSettings.volume = 80
    /\ environmentSettings.noiseLevel = "high"

\* the status Speaking: the player shows playing and the service is speaking
Speaking == isPlaying /\ synth.state = "speaking" /\ ~synth.paused

\* C27: pause() invoked while Speaking stops the ticker, moves the status to
\* Paused and leaves progress unchanged, and progress keeps that value while
\* the status is Paused, until resume(), stop() or speak().
C27_PauseKeepsProgress ==
    [][/\ (PauseRan(last') /\ Speaking /\ mounted)
            => (Paused' /\ intervals' = {} /\ progress' = progress)
       /\ (Paused /\ last'.op \notin {"resume", "stop", "speak"})
            => progress' = progress]_vars

\* pause() has run on a speaking player whose progress was above 0, and
\* another handler has run since with the player still Paused
C27_Witness ==
    /\ Paused /\ progress > 0 /\ progress < Hundred
    /\ last.op = "edit" /\ ~last.wasPlaying /\ last.wasProgress = progress

\* C28: resume() from Paused, with the text and the rate of the utterance
\* unchanged, restarts the ticker with the per-tick increment it had before
\* the pause, 100 / (text.length / rate * 50), so that the remaining ticks
\* are (100 - p)/100 of the full count (to within one thousandth of a percent).
C28_ResumeKeepsIncrement ==
    [][(last'.op = "resume" /\ Paused /\ text > 0
          /\ text = speechSynthRef.len /\ voiceSettings.rate = speechSynthRef.rate)
         => \A iv \in intervals' :
              iv.cur => LET before == (100 * 1000 * voiceSettings.rate) \div (text * 10 * 50)
                        IN iv.inc - before <= 1 /\ before - iv.inc <= 1]_vars

\* C29: when the end-of-speech callback of the current utterance fires,
\* progress becomes 100, the player is not speaking and the ticker is
\* stopped, whatever progress was.
C29_EndForcesHundred ==
    [][last'.op = "end"
         => (progress' = 100 * 1000 /\ ~isPlaying' /\ intervals' = {}
             /\ synth'.state = "idle")]_vars

\* the end callback has fired on a speaking player whose estimate was
\* strictly between 0 and 100
C29_Witness ==
    /\ last.op = "end" /\ last.wasPlaying
    /\ last.wasProgress > 0 /\ last.wasProgress < 100 * 1000
    /\ progress = 100 * 1000 /\ ~isPlaying /\ intervals = {}

\* C30: progress is within [0, 100] in every reachable state, and only a
\* reset (the start of an utterance, or stop) ever decreases it: no ticker
\* step, pause or resume does, also after the text was edited or emptied and
\* with a zero estimated duration.
C30_ProgressBoundedMonotonic ==
    [][/\ progress' >= 0 /\ progress' <= 100 * 1000
       /\ progress' < progress => last'.op \in {"start", "stop"}]_vars

\* a ticker started by resume() after the text was emptied (estimated
\* duration 0) has ticked: progress went from below 100 to 100
C30_Witness ==
    /\ last.op = "tick" /\ text = 0 /\ isPlaying
    /\ last.wasProgress > 0 /\ last.wasProgress < 100 * 1000
    /\ progress = 100 * 1000

\* C31: at most one progress ticker is active, a ticker is active only
\* while the player's status is speaking, and every step that leaves that
\* status (pause, stop, end, error) leaves no ticker.
C31_OneTickerWhileSpeaking ==
    [][/\ Cardinality(intervals') <= 1
       /\ intervals' # {} => isPlaying'
       /\ (last'.op \in {"pause", "window", "stop", "end", "error"} /\ synthAvailable)
            => intervals' = {}]_vars

\* resume() has replaced the ticker of a paused player: exactly one is active
C31_Witness ==
    /\ last.op = "resume" /\ last.wasProgress > 0 /\ budget.ticks > 0
    /\ isPlaying /\ Cardinality(intervals) = 1

\* C32: whenever the player is muted the volume of the current utterance is
\* 0, and whenever it is not muted that volume is not 0, after speak() (also
\* with the high-noise boost), toggleMute and every change of the stored
\* volume.
C32_MutedMeansSilent ==
    speechSynthRef # NoUtterance
      => /\ isMuted => speechSynthRef.volume = 0
         /\ ~isMuted => speechSynthRef.volume > 0

\* speak() on a muted player under high noise with adaptation on: volume 0
C32_Witness ==
    /\ Spoke /\ isMuted /\ Adapting
    /\ voiceSettings.volume > 100 /\ speechSynthRef.volume = 0

\* C33: every listen window ends without further user action: while the
\* player is listening, a timer that will set listening to false is pending,
\* whether or not the player was speaking when the window was started.
C33_ListenWindowEnds ==
    (mounted /\ isListening) => (windowTimers > 0 \/ processTimers > 0)

\* C34: a listen window the user has toggled off before it elapses triggers
\* no interruption (no pause, no interruptionDetected, no follow-up sentence
\* scheduled), and at most one interruption sequence is in flight at a time.
C34_ToggledOffWindowIsInert ==
    [][/\ (last'.op = "window" /\ ~isListening)
            => /\ ~ServiceAsked(last', "pause")
               /\ interruptionDetected' = interruptionDetected
               /\ processTimers' = processTimers
       /\ windowTimers' + processTimers' <= 1]_vars

\* C35: for every normalized noise value, the level named by the label the
\* monitor displays is the level the analysis classified the frame as.
C35_LabelMatchesClassification ==
    bench.phase = "done" => DisplayedLevel(bench.normalizedValue) = bench.noiseLevel

====
